---- MODULE Spec2Model ----
(***************************************************************************)
(* State-machine model of the document pipeline's two stores:              *)
(*   - MetadataManager (src/ingestor/metadata_manager.py), the JSON-backed *)
(*     ledger of registered documents and its running statistics;          *)
(*   - VectorStoreManager (src/core/vector_store.py), the Qdrant           *)
(*     collection of indexed points.                                       *)
(***************************************************************************)
EXTENDS Integers, FiniteSets, Sequences, TLC

VARIABLES
    metadata,       \* MetadataManager.metadata: the in-memory ledger dict
    file,           \* the backing file documents_metadata.json
    clock,          \* datetime.now(), as a logical time
    call,           \* the last call made on the ledger or the index, with its result
    fresh,          \* history: since the ledger was last empty, only new ids were registered
    vs_manager,     \* st.session_state.vector_store_manager
    collection,     \* the Qdrant collection named QDRANT_COLLECTION_NAME
    session,        \* st.session_state: ingested_docs and processed_files
    embedding,      \* EmbeddingManager._instance and its attributes
    uuids,          \* history: the ids uuid.uuid4() has produced, each with
                    \* the file it was drawn for
    other_metadata, \* MetadataManager.metadata of a second instance over the same file
    indexing        \* an index_documents call in progress: its position and locals

vars == <<metadata, file, clock, call, fresh, vs_manager, collection, session,
          embedding, uuids, other_metadata, indexing>>

\* what the calls on the ledger, the vector store and the processor leave alone
others == <<session, embedding, uuids, other_metadata, indexing>>

----------------------------------------------------------------------------
(* Bounds of the model *)

MaxChunkCount == 1
MaxFileSize == 1
MaxTotalChunks == 2
MaxTotalSize == 2
MaxPoints == 2
MaxK == 2
MaxBatch == 2
MaxClock == 2

DocIds == {"A1", "A2"}
Filenames == {"awr1.txt", "awr2.txt"}
Statuses == {"indexed", "error"}
ChunkCounts == 0..MaxChunkCount
FileSizes == 0..MaxFileSize

\* the key 'last_updated' is absent from an entry until update_document_status
NoTime == 0
\* the embedding model's dimension (all-MiniLM-L6-v2)
VectorSize == 384

----------------------------------------------------------------------------
(* MetadataManager: pure parts *)

EmptyDocuments == [d \in {} |-> 0]

create_empty_metadata(t) ==
    [version |-> "1.0",
     created_at |-> t,
     documents |-> EmptyDocuments,
     statistics |-> [total_documents |-> 0,
                     total_chunks |-> 0,
                     total_size_bytes |-> 0]]

\* json.dump: the dict is written as a JSON object, its 'documents' as members
json_dump(md) ==
    [version |-> md.version,
     created_at |-> md.created_at,
     documents |-> {<<d, md.documents[d]>> : d \in DOMAIN md.documents},
     statistics |-> md.statistics]

\* json.load on well-formed text: the members of 'documents' become the keys
\* of a dict again
json_parse(text) ==
    [version |-> text.version,
     created_at |-> text.created_at,
     documents |-> [d \in {m[1] : m \in text.documents} |->
                      (CHOOSE m \in text.documents : m[1] = d)[2]],
     statistics |-> text.statistics]

\* the backing file: missing, holding text json.load rejects (kind "corrupt",
\* e.g. zero bytes or a truncated dump), or holding a dump.  text is read
\* only for kind "json".
NoText == [version |-> "", created_at |-> 0, documents |-> {},
           statistics |-> [total_documents |-> 0, total_chunks |-> 0,
                           total_size_bytes |-> 0]]
MissingFile == [kind |-> "missing", text |-> NoText]
CorruptFile == [kind |-> "corrupt", text |-> NoText]
JsonFile(text) == [kind |-> "json", text |-> text]

\* os.path.exists(self.metadata_file)
path_exists(f) == f.kind # "missing"

\* open(file, 'r') and json.load: the dict, or an exception for text that is
\* not JSON
json_load(f) ==
    IF f.kind = "json"
    THEN [raised |-> FALSE, value |-> json_parse(f.text)]
    ELSE [raised |-> TRUE, value |-> "JSONDecodeError"]

\* a _load_metadata without the try/except around json.load
load_metadata_uncaught(f, t) ==
    IF path_exists(f)
    THEN LET r == json_load(f)
         IN IF r.raised
            THEN [raised |-> TRUE, value |-> create_empty_metadata(t)]
            ELSE [raised |-> FALSE, value |-> r.value]
    ELSE [raised |-> FALSE, value |-> create_empty_metadata(t)]

\* _load_metadata: a missing file and a file json.load rejects both give the
\* empty structure; the exception is caught and logged
load_metadata(f, t) ==
    IF path_exists(f)
    THEN LET r == json_load(f)
         IN IF r.raised
            THEN [raised |-> FALSE, value |-> create_empty_metadata(t)]
            ELSE [raised |-> FALSE, value |-> r.value]
    ELSE [raised |-> FALSE, value |-> create_empty_metadata(t)]

\* _save_metadata: open(file, 'w') and json.dump inside try/except; an
\* exception is logged and swallowed.  outcome is what the file system does:
\*   "ok"          the dump is written
\*   "open_fails"  open raises, the file is as before
\*   "write_fails" open truncated the file and the dump raised part-way
SaveOutcomes == {"ok", "open_fails", "write_fails"}

\* a save that keeps the documents the file holds and the instance lacks
save_metadata_merging(md, f, outcome) ==
    LET old == load_metadata(f, NoTime).value.documents
        merged == [d \in (DOMAIN old) \cup (DOMAIN md.documents) |->
                      IF d \in DOMAIN md.documents THEN md.documents[d] ELSE old[d]]
    IN JsonFile(json_dump([md EXCEPT !.documents = merged]))

save_metadata(md, f, outcome) ==
    CASE outcome = "ok" -> JsonFile(json_dump(md))
      [] outcome = "open_fails" -> f
      [] outcome = "write_fails" -> CorruptFile

\* a register_entry that stores the size where the chunk count belongs
register_entry_swapped(filename, chunk_count, file_size, t) ==
    [filename |-> filename,
     chunk_count |-> file_size,
     file_size |-> file_size,
     ingested_at |-> t,
     status |-> "indexed",
     last_updated |-> NoTime]

\* register_document, lines 83-89: the entry written under doc_id
register_entry(filename, chunk_count, file_size, t) ==
    [filename |-> filename,
     chunk_count |-> chunk_count,
     file_size |-> file_size,
     ingested_at |-> t,
     status |-> "indexed",
     last_updated |-> NoTime]

\* dict assignment documents[doc_id] = entry
put(docs, doc_id, entry) ==
    [d \in (DOMAIN docs) \cup {doc_id} |-> IF d = doc_id THEN entry ELSE docs[d]]

\* a del that drops the whole dict
del_all(docs, doc_id) == [d \in {} |-> 0]

\* del documents[doc_id]
del(docs, doc_id) ==
    [d \in (DOMAIN docs) \ {doc_id} |-> docs[d]]

\* register statistics that count every call as a new document
register_statistics_increment(stats, docs, chunk_count, file_size) ==
    [total_documents |-> stats.total_documents + 1,
     total_chunks |-> stats.total_chunks + chunk_count,
     total_size_bytes |-> stats.total_size_bytes + file_size]

\* register statistics that assign the totals instead of adding to them
register_statistics_assign(stats, docs, chunk_count, file_size) ==
    [total_documents |-> Cardinality(DOMAIN docs),
     total_chunks |-> chunk_count,
     total_size_bytes |-> file_size]

\* register_document, lines 92-94: docs is the dict after the assignment
register_statistics(stats, docs, chunk_count, file_size) ==
    [total_documents |-> Cardinality(DOMAIN docs),
     total_chunks |-> stats.total_chunks + chunk_count,
     total_size_bytes |-> stats.total_size_bytes + file_size]

unregister_statistics_uncounted(stats, doc) ==
    [total_documents |-> stats.total_documents,
     total_chunks |-> stats.total_chunks - doc.chunk_count,
     total_size_bytes |-> stats.total_size_bytes - doc.file_size]

\* unregister_document, lines 121-123: doc is the entry being removed
unregister_statistics(stats, doc) ==
    [total_documents |-> stats.total_documents - 1,
     total_chunks |-> stats.total_chunks - doc.chunk_count,
     total_size_bytes |-> stats.total_size_bytes - doc.file_size]

update_entry_restamping(entry, status, t) ==
    [entry EXCEPT !.status = status, !.last_updated = t, !.ingested_at = t]

\* update_document_status, lines 181-182
update_entry(entry, status, t) ==
    [entry EXCEPT !.status = status, !.last_updated = t]

\* read-only accessors
document_exists(md, doc_id) == doc_id \in DOMAIN md.documents
get_document_info(md, doc_id) ==
    IF doc_id \in DOMAIN md.documents THEN md.documents[doc_id] ELSE "None"
get_statistics(md) == md.statistics

----------------------------------------------------------------------------
(* The call record *)

\* known: whether doc_id was registered when the call was made
\* a doc_ids argument: a list of ids (given) or Python's None
IdList(ids) == [given |-> TRUE, ids |-> ids]
None == [given |-> FALSE, ids |-> {}]

\* process_multiple_documents: results before the first item
NoResults == [successful |-> <<>>, failed |-> <<>>]

\* an empty session, no index call in progress
NoSession == [ingested_docs |-> EmptyDocuments, processed_files |-> {}]
\* left: the points as the call's last step left them; disturbed: whether
\* they were different when a later step of the call began; false_alarm and
\* missed: history of the verdicts of finished calls
NoIndexing == [pc |-> "idle", document_id |-> "none", n |-> 0, points_before |-> 0,
               stored |-> 0, left |-> <<>>, disturbed |-> FALSE,
               false_alarm |-> FALSE, missed |-> FALSE]

\* creates: whether create_collection was called; stored: the points the call
\* added; warned: whether the call logged a warning
NoCall == [op |-> "none", doc_id |-> "none", filename |-> "none",
           chunk_count |-> 0, file_size |-> 0, status |-> "none",
           known |-> FALSE, creates |-> FALSE, stored |-> 0, warned |-> FALSE,
           doc_ids |-> None, k |-> 0, filtered |-> FALSE, result |-> <<>>,
           file_path |-> "none", file_info_list |-> <<>>, results |-> NoResults,
           instance |-> 0, uploaded_files |-> <<>>, submitted |-> <<>>,
           log |-> <<>>,
           ret |-> "none"]

----------------------------------------------------------------------------
(* MetadataManager: operations *)

\* register_document, lines 82-98: the dict after the call and its result
register_result(md, doc_id, filename, chunk_count, file_size, t) ==
    LET docs == put(md.documents, doc_id,
                    register_entry(filename, chunk_count, file_size, t))
    IN [ret |-> "True",
        saves |-> TRUE,
        metadata |-> [md EXCEPT
                        !.documents = docs,
                        !.statistics = register_statistics(md.statistics, docs,
                                                           chunk_count, file_size)]]

\* an unregister without the membership test: the counters are decremented
\* and the ledger saved for an unknown id too
unregister_result_unguarded(md, doc_id) ==
    [ret |-> "True",
     saves |-> TRUE,
     metadata |-> [md EXCEPT
                     !.statistics.total_documents = @ - 1,
                     !.documents = del(md.documents, doc_id)]]

\* an unregister that rewrites the backing file also when the id is unknown
unregister_result_saves(md, doc_id) ==
    IF doc_id \in DOMAIN md.documents
    THEN LET doc == md.documents[doc_id]
         IN [ret |-> "True",
             saves |-> TRUE,
             metadata |-> [md EXCEPT
                             !.statistics = unregister_statistics(md.statistics, doc),
                             !.documents = del(md.documents, doc_id)]]
    ELSE [ret |-> "False", saves |-> TRUE, metadata |-> md]

\* unregister_document, lines 116-131
unregister_result(md, doc_id) ==
    IF doc_id \in DOMAIN md.documents
    THEN LET doc == md.documents[doc_id]
         IN [ret |-> "True",
             saves |-> TRUE,
             metadata |-> [md EXCEPT
                             !.statistics = unregister_statistics(md.statistics, doc),
                             !.documents = del(md.documents, doc_id)]]
    ELSE [ret |-> "False", saves |-> FALSE, metadata |-> md]

\* update_document_status, lines 179-185
update_status_result(md, doc_id, status, t) ==
    IF doc_id \in DOMAIN md.documents
    THEN [ret |-> "True",
          saves |-> TRUE,
          metadata |-> [md EXCEPT
                          !.documents[doc_id] =
                              update_entry(md.documents[doc_id], status, t)]]
    ELSE [ret |-> "False", saves |-> FALSE, metadata |-> md]

\* a call's effect on the instance and, when it saves, on the backing file
Apply(r, outcome) ==
    /\ metadata' = r.metadata
    /\ file' = IF r.saves THEN save_metadata(r.metadata, file, outcome) ELSE file

register_document(doc_id, filename, chunk_count, file_size, outcome) ==
    /\ metadata.statistics.total_chunks + chunk_count <= MaxTotalChunks
    /\ metadata.statistics.total_size_bytes + file_size <= MaxTotalSize
    /\ LET r == register_result(metadata, doc_id, filename, chunk_count,
                                file_size, clock)
       IN /\ Apply(r, outcome)
          /\ call' = [NoCall EXCEPT !.op = "register", !.doc_id = doc_id,
                                    !.filename = filename,
                                    !.chunk_count = chunk_count,
                                    !.file_size = file_size,
                                    !.known = document_exists(metadata, doc_id),
                                    !.ret = r.ret]
    /\ fresh' = (fresh /\ ~document_exists(metadata, doc_id))
    /\ UNCHANGED <<clock, vs_manager, collection>>
    /\ UNCHANGED others

unregister_document_cascading(doc_id, outcome) ==
    /\ LET r == unregister_result(metadata, doc_id)
       IN /\ Apply(r, outcome)
          /\ call' = [NoCall EXCEPT !.op = "unregister", !.doc_id = doc_id,
                                    !.known = document_exists(metadata, doc_id),
                                    !.ret = r.ret]
          /\ fresh' = (fresh /\ ~r.saves)
          /\ collection' =
                IF r.saves
                THEN [collection EXCEPT !.points =
                        [c \in DOMAIN @ |->
                            IF c.document_id = doc_id THEN 0 ELSE @[c]]]
                ELSE collection
    /\ UNCHANGED <<clock, vs_manager>>
    /\ UNCHANGED others

unregister_document(doc_id, outcome) ==
    /\ LET r == unregister_result(metadata, doc_id)
       IN /\ Apply(r, outcome)
          /\ call' = [NoCall EXCEPT !.op = "unregister", !.doc_id = doc_id,
                                    !.known = document_exists(metadata, doc_id),
                                    !.ret = r.ret]
          /\ fresh' = (fresh /\ ~r.saves)
    /\ UNCHANGED <<clock, vs_manager, collection>>
    /\ UNCHANGED others

update_document_status(doc_id, status, outcome) ==
    /\ LET r == update_status_result(metadata, doc_id, status, clock)
       IN /\ Apply(r, outcome)
          /\ call' = [NoCall EXCEPT !.op = "update_status", !.doc_id = doc_id,
                                    !.status = status,
                                    !.known = document_exists(metadata, doc_id),
                                    !.ret = r.ret]
          /\ fresh' = (fresh /\ ~r.saves)
    /\ UNCHANGED <<clock, vs_manager, collection>>
    /\ UNCHANGED others

\* clear_all_metadata, lines 209-210
clear_all_result(t) ==
    [ret |-> "None", saves |-> TRUE, metadata |-> create_empty_metadata(t)]

clear_all_metadata(outcome) ==
    /\ Apply(clear_all_result(clock), outcome)
    /\ call' = [NoCall EXCEPT !.op = "clear_all", !.ret = "None"]
    /\ fresh' = TRUE
    /\ UNCHANGED <<clock, vs_manager, collection>>
    /\ UNCHANGED others

IsEmptyLedger(md) ==
    /\ md.documents = EmptyDocuments
    /\ md.statistics = create_empty_metadata(clock).statistics

\* MetadataManager.__init__: a new instance over the same backing file
\* (handle_ingestion constructs one per call).  An exception out of
\* _load_metadata would leave no new instance.
MetadataManager_init ==
    /\ LET r == load_metadata(file, clock)
       IN IF r.raised
          THEN /\ call' = [NoCall EXCEPT !.op = "construct", !.ret = "raise"]
               /\ UNCHANGED <<metadata, fresh>>
          ELSE /\ metadata' = r.value
               /\ call' = [NoCall EXCEPT !.op = "construct", !.ret = "instance"]
               /\ fresh' = IsEmptyLedger(r.value)
    /\ UNCHANGED <<file, clock, vs_manager, collection>>
    /\ UNCHANGED others

\* datetime.now() moves on between calls
Tick ==
    /\ clock < MaxClock
    /\ clock' = clock + 1
    /\ call' = [NoCall EXCEPT !.op = "tick"]
    /\ UNCHANGED <<metadata, file, fresh, vs_manager, collection>>
    /\ UNCHANGED others

\* the calls a client of the ledger can make, with inputs from the given sets
LedgerNext(files, chunks, sizes, statuses, outcomes) ==
    \/ \E d \in DocIds, f \in files, c \in chunks, s \in sizes, o \in outcomes :
          register_document(d, f, c, s, o)
    \/ \E d \in DocIds, o \in outcomes : unregister_document(d, o)
    \/ \E d \in DocIds, st \in statuses, o \in outcomes :
          update_document_status(d, st, o)
    \/ \E o \in outcomes : clear_all_metadata(o)
    \/ MetadataManager_init

----------------------------------------------------------------------------
(* a second MetadataManager over the same backing file *)

\* every MetadataManager() reads the file once, in its constructor, into its
\* own self.metadata; handle_ingestion makes a new instance at each call
other_MetadataManager_init ==
    /\ other_metadata' = load_metadata(file, clock).value
    /\ call' = [NoCall EXCEPT !.op = "other_construct", !.ret = "instance"]
    /\ UNCHANGED <<metadata, file, clock, fresh, vs_manager, collection>>
    /\ UNCHANGED <<session, embedding, uuids, indexing>>

\* register_document on the second instance
other_register_document(doc_id, filename, chunk_count, file_size, outcome) ==
    /\ other_metadata.statistics.total_chunks + chunk_count <= MaxTotalChunks
    /\ other_metadata.statistics.total_size_bytes + file_size <= MaxTotalSize
    /\ LET r == register_result(other_metadata, doc_id, filename, chunk_count,
                                file_size, clock)
       IN /\ other_metadata' = r.metadata
          /\ file' = save_metadata(r.metadata, file, outcome)
          /\ call' = [NoCall EXCEPT !.op = "other_register", !.doc_id = doc_id,
                                    !.filename = filename,
                                    !.chunk_count = chunk_count,
                                    !.file_size = file_size,
                                    !.known = document_exists(other_metadata, doc_id),
                                    !.ret = r.ret]
    /\ UNCHANGED <<metadata, clock, fresh, vs_manager, collection>>
    /\ UNCHANGED <<session, embedding, uuids, indexing>>

\* unregister_document on the second instance
other_unregister_document(doc_id, outcome) ==
    /\ LET r == unregister_result(other_metadata, doc_id)
       IN /\ other_metadata' = r.metadata
          /\ file' = IF r.saves THEN save_metadata(r.metadata, file, outcome)
                                ELSE file
          /\ call' = [NoCall EXCEPT !.op = "other_unregister", !.doc_id = doc_id,
                                    !.known = document_exists(other_metadata, doc_id),
                                    !.ret = r.ret]
    /\ UNCHANGED <<metadata, clock, fresh, vs_manager, collection>>
    /\ UNCHANGED <<session, embedding, uuids, indexing>>

OtherLedgerNext(files, chunks, sizes, outcomes) ==
    \/ other_MetadataManager_init
    \/ \E d \in DocIds, f \in files, c \in chunks, s \in sizes, o \in outcomes :
          other_register_document(d, f, c, s, o)
    \/ \E d \in DocIds, o \in outcomes : other_unregister_document(d, o)

----------------------------------------------------------------------------
(* EmbeddingManager *)

\* the class before its first use: created counts the objects __new__ has
\* made (cls._instance is None while it is 0), runs counts the executions of
\* _initialize; FALSE and 0 stand for attributes that are None
NoEmbedding ==
    [created |-> 0, initialized |-> FALSE, embeddings |-> FALSE,
     vector_size |-> 0, model_client |-> FALSE, runs |-> 0]

\* what loading the models does: "ok", SentenceTransformer raises, or
\* HuggingFaceEmbeddings raises
EmbeddingOutcomes == {"ok", "model_fails", "embeddings_fails"}

EmbeddingManager_new_always(e) ==
    [e EXCEPT !.created = @ + 1, !.initialized = FALSE]

\* __new__, lines 22-26
EmbeddingManager_new(e) ==
    IF e.created = 0
    THEN [e EXCEPT !.created = 1, !.initialized = FALSE]
    ELSE e

\* _initialize, lines 40-65
initialize(e, outcome) ==
    IF outcome = "model_fails"
    THEN [raised |-> TRUE, embedding |-> e]
    ELSE LET loaded == [e EXCEPT !.model_client = TRUE, !.vector_size = VectorSize]
         IN IF outcome = "embeddings_fails"
            THEN [raised |-> TRUE, embedding |-> loaded]
            ELSE [raised |-> FALSE,
                  embedding |-> [loaded EXCEPT !.embeddings = TRUE]]

EmbeddingManager_init_retrying(e, outcome) ==
    IF e.initialized
    THEN [raised |-> FALSE, embedding |-> e]
    ELSE LET r == initialize([e EXCEPT !.embeddings = FALSE, !.vector_size = 0,
                                       !.model_client = FALSE, !.runs = @ + 1],
                             outcome)
         IN [raised |-> r.raised,
             embedding |-> [r.embedding EXCEPT !.initialized = ~r.raised]]

\* __init__, lines 28-38: _initialized is set before _initialize runs
EmbeddingManager_init(e, outcome) ==
    IF e.initialized
    THEN [raised |-> FALSE, embedding |-> e]
    ELSE initialize([e EXCEPT !.initialized = TRUE, !.embeddings = FALSE,
                              !.vector_size = 0, !.model_client = FALSE,
                              !.runs = @ + 1],
                    outcome)

\* get_embedding_manager(): EmbeddingManager()
get_embedding_manager_result(e, outcome) ==
    EmbeddingManager_init(EmbeddingManager_new(e), outcome)

\* get_embeddings() and get_vector_size() raise RuntimeError for an attribute
\* that is None
get_embeddings_raises(e) == ~e.embeddings
get_vector_size_raises(e) == e.vector_size = 0

get_embedding_manager(outcome) ==
    /\ outcome \in EmbeddingOutcomes
    /\ LET r == get_embedding_manager_result(embedding, outcome)
       IN /\ embedding' = r.embedding
          /\ call' = [NoCall EXCEPT !.op = "get_embedding_manager",
                                    !.instance = r.embedding.created,
                                    !.ret = IF r.raised THEN "raise" ELSE "instance"]
    /\ UNCHANGED <<metadata, file, clock, fresh, vs_manager, collection>>
    /\ UNCHANGED <<session, uuids, other_metadata, indexing>>

----------------------------------------------------------------------------
(* VectorStoreManager *)

\* a chunk: a LangChain Document, its page_content and the metadata stamped
\* on it; "" is an empty or missing value
Chunk(document_id, filename, page_content) ==
    [document_id |-> document_id,
     filename |-> filename,
     source_path |-> filename,
     page_content |-> page_content]

\* the chunks load_and_split_document produces for an upload
StampedChunks == {Chunk(d, "awr1.txt", "text") : d \in DocIds}

\* the chunks a caller can hand to index_documents: stamped ones, and ones
\* with an empty document_id, filename or content
ChunkKinds ==
    StampedChunks \cup {Chunk("", "awr1.txt", "text"), Chunk("A1", "", "text"),
                        Chunk("A1", "awr1.txt", "")}

NoManager == [constructed |-> FALSE, vector_size |-> 0]
NoPoints == [c \in ChunkKinds |-> 0]
NoCollection == [exists |-> FALSE, vector_size |-> 0, points |-> NoPoints]

RECURSIVE Total(_, _)
Total(f, S) ==
    IF S = {} THEN 0
    ELSE LET d == CHOOSE x \in S : TRUE IN f[d] + Total(f, S \ {d})

\* collection_info.points_count
points_count(col) == Total(col.points, DOMAIN col.points)

\* what the Qdrant service does with one manager call: "ok", or the named
\* client call raises
StoreOutcomes ==
    {"ok", "get_fails", "create_fails", "delete_fails", "add_fails", "query_fails"}

\* _ensure_collection_exists: when get_collection raises, for an absent
\* collection or for any other reason, create_collection runs with
\* size = self.vector_size; create_collection raises for a collection that
\* exists
ensure_collection_exists(col, vector_size, outcome) ==
    IF col.exists /\ outcome # "get_fails"
    THEN [raised |-> FALSE, creates |-> FALSE, collection |-> col]
    ELSE IF col.exists \/ outcome = "create_fails"
         THEN [raised |-> TRUE, creates |-> TRUE, collection |-> col]
         ELSE [raised |-> FALSE,
               creates |-> TRUE,
               collection |-> [exists |-> TRUE, vector_size |-> vector_size,
                               points |-> NoPoints]]

\* client.delete_collection
delete_collection(col) == NoCollection

\* clear_collection: delete_collection, then _ensure_collection_exists; any
\* exception is raised to the caller as CustomException
clear_collection_result(col, vector_size, outcome) ==
    IF outcome = "delete_fails"
    THEN [raised |-> TRUE, creates |-> FALSE, collection |-> col]
    ELSE ensure_collection_exists(delete_collection(col), vector_size, outcome)

\* VectorStoreManager.__init__, lines 30-50: the embedding manager and its
\* two accessors, then _ensure_collection_exists; any exception is raised
\* as CustomException
VectorStoreManager_result(e, col, outcome) ==
    LET g == get_embedding_manager_result(e, outcome)
    IN IF g.raised \/ get_embeddings_raises(g.embedding)
                   \/ get_vector_size_raises(g.embedding)
       THEN [raised |-> TRUE, creates |-> FALSE, embedding |-> g.embedding,
             collection |-> col, vector_size |-> 0]
       ELSE LET r == ensure_collection_exists(col, g.embedding.vector_size, outcome)
            IN [raised |-> r.raised, creates |-> r.creates,
                embedding |-> g.embedding, collection |-> r.collection,
                vector_size |-> g.embedding.vector_size]

\* VectorStoreManager.__init__ as SessionManager.initialize and
\* get_vector_store_manager call it: the manager is kept only when the
\* constructor returns
VectorStoreManager_init(outcome) ==
    /\ outcome \in {"ok", "get_fails", "create_fails", "model_fails",
                    "embeddings_fails"}
    /\ LET r == VectorStoreManager_result(embedding, collection, outcome)
       IN /\ collection' = r.collection
          /\ embedding' = r.embedding
          /\ IF r.raised
             THEN /\ call' = [NoCall EXCEPT !.op = "vs_init", !.ret = "raise",
                                           !.creates = r.creates]
                  /\ UNCHANGED vs_manager
             ELSE /\ call' = [NoCall EXCEPT !.op = "vs_init", !.ret = "instance",
                                           !.creates = r.creates]
                  /\ vs_manager' = [constructed |-> TRUE,
                                    vector_size |-> r.vector_size]
    /\ UNCHANGED <<metadata, file, clock, fresh>>
    /\ UNCHANGED <<session, uuids, other_metadata, indexing>>

index_verdict_strict(points_before, points_after, n) ==
    [ret |-> IF points_after - points_before = n THEN "ids" ELSE "raise",
     warned |-> FALSE]

\* index_documents, lines 133-150: the check of the point count read before
\* and after add_documents, for a list of n documents
index_verdict(points_before, points_after, n) ==
    LET points_added == points_after - points_before
    IN [ret |-> IF points_added = 0 THEN "raise" ELSE "ids",
        warned |-> points_added # 0 /\ points_added # n]

\* vectorstore.add_documents: the store keeps stored new points of the n
\* documents, each a copy of chunk
add_documents(col, chunk, stored) ==
    [col EXCEPT !.points[chunk] = @ + stored]

\* the store accepts vectors of the manager's dimension only: adding to or
\* searching a missing collection, or one of another vector size, raises
usable(col, vector_size) == col.exists /\ col.vector_size = vector_size

\* index_documents(documents) with no other writer between its two reads of
\* the point count
index_result(col, vector_size, chunk, n, stored, outcome) ==
    IF n = 0
    THEN [ret |-> "empty", warned |-> FALSE, collection |-> col]
    ELSE IF ~col.exists \/ outcome \in {"get_fails", "add_fails"}
    THEN [ret |-> "raise", warned |-> FALSE, collection |-> col]
    ELSE LET after == add_documents(col, chunk, stored)
             v == index_verdict(points_count(col), points_count(after), n)
         IN [ret |-> v.ret, warned |-> v.warned, collection |-> after]

index_documents(chunk, n, stored, outcome) ==
    /\ vs_manager.constructed
    /\ stored <= n
    /\ outcome \in {"ok", "get_fails", "add_fails"}
    /\ points_count(collection) + n <= MaxPoints
    /\ LET r == index_result(collection, vs_manager.vector_size, chunk, n, stored,
                              outcome)
       IN /\ collection' = r.collection
          /\ call' = [NoCall EXCEPT !.op = "index",
                                    !.doc_id = chunk.document_id,
                                    !.chunk_count = n,
                                    !.stored = points_count(r.collection)
                                               - points_count(collection),
                                    !.warned = r.warned,
                                    !.ret = r.ret]
    /\ UNCHANGED <<metadata, file, clock, fresh, vs_manager>>
    /\ UNCHANGED others

clear_collection(outcome) ==
    /\ vs_manager.constructed
    /\ outcome \in {"ok", "create_fails", "delete_fails"}
    /\ LET r == clear_collection_result(collection, vs_manager.vector_size, outcome)
       IN /\ collection' = r.collection
          /\ call' = [NoCall EXCEPT !.op = "clear",
                                    !.creates = r.creates,
                                    !.ret = IF r.raised THEN "raise" ELSE "None"]
    /\ UNCHANGED <<metadata, file, clock, fresh, vs_manager>>
    /\ UNCHANGED others

----------------------------------------------------------------------------
(* index_documents with other writers on the collection *)

\* the number of points of the collection that carry a document_id
RecordsOf(col, doc_id) ==
    Total(col.points, {c \in DOMAIN col.points : c.document_id = doc_id})

\* index_documents, lines 122-123: the caller reads the point count; its
\* documents carry a document_id that no point has yet
index_begin(document_id, n) ==
    /\ indexing.pc = "idle"
    /\ vs_manager.constructed
    /\ usable(collection, vs_manager.vector_size)
    /\ n >= 1
    /\ RecordsOf(collection, document_id) = 0
    /\ indexing' = [indexing EXCEPT !.pc = "counted",
                                    !.document_id = document_id,
                                    !.n = n,
                                    !.points_before = points_count(collection),
                                    !.stored = 0,
                                    !.left = collection.points,
                                    !.disturbed = FALSE]
    /\ call' = [NoCall EXCEPT !.op = "index_begin", !.doc_id = document_id,
                              !.chunk_count = n]
    /\ UNCHANGED <<metadata, file, clock, fresh, vs_manager, collection>>
    /\ UNCHANGED <<session, embedding, uuids, other_metadata>>

\* index_documents, lines 126-130: add_documents stores the caller's records
index_add(stored) ==
    /\ indexing.pc = "counted"
    /\ usable(collection, vs_manager.vector_size)
    /\ stored <= indexing.n
    /\ points_count(collection) + stored <= MaxPoints
    /\ collection' = add_documents(collection,
                                   Chunk(indexing.document_id, "awr1.txt", "text"),
                                   stored)
    /\ indexing' = [indexing EXCEPT !.pc = "added",
                                    !.stored = stored,
                                    !.disturbed = (collection.points # indexing.left),
                                    !.left = collection'.points]
    /\ call' = [NoCall EXCEPT !.op = "index_add", !.doc_id = indexing.document_id,
                              !.chunk_count = indexing.n, !.stored = stored]
    /\ UNCHANGED <<metadata, file, clock, fresh, vs_manager>>
    /\ UNCHANGED <<session, embedding, uuids, other_metadata>>

\* whether the points changed between two steps of the call in progress
Disturbed == indexing.disturbed \/ collection.points # indexing.left

\* the end of an index call with its verdict v
finish_index(v) ==
    LET own == RecordsOf(collection, indexing.document_id)
    IN /\ indexing.pc = "added"
       /\ indexing' = [NoIndexing EXCEPT
             !.false_alarm = indexing.false_alarm
                             \/ (v.ret = "raise" /\ own = indexing.n),
             !.missed = indexing.missed
                        \/ (v.ret = "ids" /\ ~v.warned /\ own # indexing.n)]
       /\ call' = [NoCall EXCEPT !.op = "index_end",
                                 !.doc_id = indexing.document_id,
                                 !.chunk_count = indexing.n,
                                 !.stored = own,
                                 !.warned = v.warned,
                                 !.ret = v.ret]
       /\ UNCHANGED <<metadata, file, clock, fresh, vs_manager, collection>>
       /\ UNCHANGED <<session, embedding, uuids, other_metadata>>

\* an end that judges the call by the caller's own records in the collection
index_end_counting_own ==
    finish_index(index_verdict(0, RecordsOf(collection, indexing.document_id),
                               indexing.n))

\* index_documents, lines 133-150: the caller reads the point count again
\* and compares
index_end ==
    finish_index(index_verdict(indexing.points_before, points_count(collection),
                               indexing.n))

\* another caller's index_documents, with documents of its own
concurrent_index_documents(chunk, n, stored) ==
    /\ chunk.document_id # indexing.document_id
    /\ index_documents(chunk, n, stored, "ok")

\* one index call in steps, and the other writers of the collection
RaceNext ==
    \/ VectorStoreManager_init("ok")
    \/ \E d \in DocIds, n \in 1..MaxPoints : index_begin(d, n)
    \/ \E k \in 0..MaxPoints : index_add(k)
    \/ index_end
    \/ \E c \in StampedChunks, n \in 1..MaxPoints :
          \E k \in 0..n : concurrent_index_documents(c, n, k)
    \/ clear_collection("ok")

----------------------------------------------------------------------------
(* DocumentRetriever *)

\* Python's truth value of a doc_ids argument: None and the empty list are
\* false
truthy(doc_ids) == doc_ids.given /\ doc_ids.ids # {}

\* get_unfiltered_retriever(k)
get_unfiltered_retriever(k) == [k |-> k, filtered |-> FALSE, any |-> {}]

get_filtered_retriever_without_filter(doc_ids, k) ==
    [k |-> k, filtered |-> FALSE, any |-> {}]

\* get_filtered_retriever(doc_ids, k): MatchAny(any=doc_ids) on
\* metadata.document_id, or the unfiltered retriever when doc_ids is false
get_filtered_retriever(doc_ids, k) ==
    IF ~truthy(doc_ids)
    THEN get_unfiltered_retriever(k)
    ELSE [k |-> k, filtered |-> TRUE, any |-> doc_ids.ids]

\* retrieve_documents, line 99
choose_retriever(doc_ids, k) ==
    IF truthy(doc_ids)
    THEN get_filtered_retriever(doc_ids, k)
    ELSE get_unfiltered_retriever(k)

\* the points of the collection a retriever's filter lets through
matching(col, retriever) ==
    [c \in ChunkKinds |->
        IF retriever.filtered /\ c.document_id \notin retriever.any
        THEN 0
        ELSE col.points[c]]

Min(a, b) == IF a <= b THEN a ELSE b

occurrences(seq, c) == Cardinality({i \in DOMAIN seq : seq[i] = c})

\* retriever.invoke(query): the k most similar matching points, in an order
\* the embedding of the query decides
search_results(col, retriever) ==
    LET m == matching(col, retriever)
        hits == {c \in ChunkKinds : m[c] > 0}
        len == Min(retriever.k, Total(m, ChunkKinds))
    IN {seq \in [1..len -> hits] : \A c \in hits : occurrences(seq, c) <= m[c]}

\* retrieve_documents(query, doc_ids, k): exceptions of the search are logged
\* and raised again
retrieve_documents(doc_ids, k, outcome) ==
    /\ vs_manager.constructed
    /\ outcome \in {"ok", "query_fails"}
    /\ LET retriever == choose_retriever(doc_ids, k)
       IN IF ~usable(collection, vs_manager.vector_size) \/ outcome = "query_fails"
          THEN call' = [NoCall EXCEPT !.op = "retrieve", !.doc_ids = doc_ids,
                                      !.k = k, !.filtered = retriever.filtered,
                                      !.ret = "raise"]
          ELSE \E seq \in search_results(collection, retriever) :
                  call' = [NoCall EXCEPT !.op = "retrieve", !.doc_ids = doc_ids,
                                         !.k = k, !.filtered = retriever.filtered,
                                         !.result = seq, !.ret = "documents"]
    /\ UNCHANGED <<metadata, file, clock, fresh, vs_manager, collection>>
    /\ UNCHANGED others

\* the doc_ids arguments of a retrieval
DocIdArguments == {None} \cup {IdList(ids) : ids \in SUBSET DocIds}

RetrieverNext(outcomes) ==
    \E a \in DocIdArguments, k \in 1..MaxK, o \in outcomes :
        retrieve_documents(a, k, o)

----------------------------------------------------------------------------
(* DocumentProcessor *)

\* the files a caller can name: one that does not exist, one that exists and
\* holds no text (zero bytes), one that holds text
Paths == {"missing.txt", "empty.txt", "awr1.txt"}

\* os.path.exists(file_path)
os_path_exists(file_path) == file_path # "missing.txt"

\* what UnstructuredFileLoader(file_path).load() and the text splitter do
\* with a file: the loader raises, or returns a list of documents that the
\* splitter cuts into pieces chunks
LoadRaises == [raised |-> TRUE, documents |-> 0, pieces |-> 0]
Loaded(documents, pieces) ==
    [raised |-> FALSE, documents |-> documents, pieces |-> pieces]

\* a file without text is refused by the loader, or loaded as no document,
\* or loaded as one document with empty page_content, of which the splitter
\* makes no chunk; a file with text gives at least one chunk
Loads(file_path) ==
    IF ~os_path_exists(file_path) THEN {LoadRaises}
    ELSE IF file_path = "empty.txt"
    THEN {LoadRaises, Loaded(0, 0), Loaded(1, 0)}
    ELSE {LoadRaises} \cup {Loaded(1, n) : n \in 1..MaxChunkCount}

\* lines 72-75: the metadata stamped on each document, which every chunk of
\* it inherits
stamp(file_path, doc_id, filename) ==
    [document_id |-> doc_id, filename |-> filename, source_path |-> file_path,
     page_content |-> "text"]

\* load_and_split_document: FileNotFoundError, a loader exception and an
\* empty document list are raised as CustomException; the chunks the
\* splitter returns are returned as they are
load_and_split_result(file_path, doc_id, filename, load) ==
    IF ~os_path_exists(file_path)
    THEN [raised |-> TRUE, error |-> "File not found", chunks |-> <<>>]
    ELSE IF load.raised
    THEN [raised |-> TRUE, error |-> "load failed", chunks |-> <<>>]
    ELSE IF load.documents = 0
    THEN [raised |-> TRUE, error |-> "No content loaded", chunks |-> <<>>]
    ELSE [raised |-> FALSE,
          error |-> "",
          chunks |-> [i \in 1..load.pieces |-> stamp(file_path, doc_id, filename)]]

load_and_split_document(file_path, doc_id, filename, load) ==
    /\ load \in Loads(file_path)
    /\ LET r == load_and_split_result(file_path, doc_id, filename, load)
       IN call' = [NoCall EXCEPT !.op = "load_and_split",
                                 !.file_path = file_path,
                                 !.doc_id = doc_id,
                                 !.filename = filename,
                                 !.result = r.chunks,
                                 !.ret = IF r.raised THEN "raise" ELSE "chunks"]
    /\ UNCHANGED <<metadata, file, clock, fresh, vs_manager, collection>>
    /\ UNCHANGED others

\* a file descriptor of process_multiple_documents
FileInfo(file_path, doc_id, filename) ==
    [file_path |-> file_path, doc_id |-> doc_id, filename |-> filename]

Succeeded(file_info, chunks) ==
    [doc_id |-> file_info.doc_id, filename |-> file_info.filename,
     chunk_count |-> Len(chunks), chunks |-> chunks]

Failed(file_info, error) ==
    [doc_id |-> file_info.doc_id, filename |-> file_info.filename,
     error |-> error]

RECURSIVE process_from_aborting(_, _, _, _)
process_from_aborting(file_info_list, loads, i, results) ==
    IF i > Len(file_info_list)
    THEN results
    ELSE LET file_info == file_info_list[i]
             r == load_and_split_result(file_info.file_path, file_info.doc_id,
                                        file_info.filename, loads[i])
         IN IF r.raised
            THEN [results EXCEPT !.failed = Append(@, Failed(file_info, r.error))]
            ELSE process_from_aborting(file_info_list, loads, i + 1,
                    [results EXCEPT
                        !.successful = Append(@, Succeeded(file_info, r.chunks))])

\* the for loop of process_multiple_documents from item i on: each item is
\* loaded inside its own try/except and appended to one of the two lists
RECURSIVE process_from(_, _, _, _)
process_from(file_info_list, loads, i, results) ==
    IF i > Len(file_info_list)
    THEN results
    ELSE LET file_info == file_info_list[i]
             r == load_and_split_result(file_info.file_path, file_info.doc_id,
                                        file_info.filename, loads[i])
         IN process_from(file_info_list, loads, i + 1,
               IF r.raised
               THEN [results EXCEPT !.failed = Append(@, Failed(file_info, r.error))]
               ELSE [results EXCEPT
                        !.successful = Append(@, Succeeded(file_info, r.chunks))])

process_multiple_documents(file_info_list, loads) ==
    /\ \A i \in DOMAIN file_info_list :
          loads[i] \in Loads(file_info_list[i].file_path)
    /\ call' = [NoCall EXCEPT !.op = "process_multiple",
                              !.file_info_list = file_info_list,
                              !.results = process_from(file_info_list, loads, 1,
                                                       NoResults),
                              !.ret = "results"]
    /\ UNCHANGED <<metadata, file, clock, fresh, vs_manager, collection>>
    /\ UNCHANGED others

\* the descriptors of a batch, and each with what loading its file can give
FileInfos ==
    {FileInfo("missing.txt", "A1", "awr1.txt"), FileInfo("empty.txt", "A2", "awr2.txt"),
     FileInfo("awr1.txt", "A1", "awr1.txt"), FileInfo("awr1.txt", "A2", "awr2.txt")}
Items == UNION {{<<f, l>> : l \in Loads(f.file_path)} : f \in FileInfos}

ProcessorNext ==
    \/ \E p \in Paths, d \in DocIds, f \in Filenames :
          \E l \in Loads(p) : load_and_split_document(p, d, f, l)
    \/ \E n \in 0..MaxBatch : \E items \in [1..n -> Items] :
          process_multiple_documents([i \in 1..n |-> items[i][1]],
                                     [i \in 1..n |-> items[i][2]])

----------------------------------------------------------------------------
(* SessionManager and the upload section *)

\* the names of the files a user uploads: one without text, one with text
Uploads == {"empty.txt", "awr1.txt"}

\* len(uploaded_file.getbuffer())
buffer_size(name) == IF name = "empty.txt" THEN 0 ELSE 1

\* what happens to one file in handle_ingestion: whether the temporary copy
\* can be written, what loading and splitting it gives, how many new points
\* the store keeps, what the store and the ledger's file do
Fate(write_ok, load, stored, store, save) ==
    [write_ok |-> write_ok, load |-> load, stored |-> stored, store |-> store,
     save |-> save]

IngestFates(name, saves) ==
    {Fate(FALSE, LoadRaises, 0, "ok", "ok"), Fate(TRUE, LoadRaises, 0, "ok", "ok")}
    \cup (IF name = "empty.txt"
          THEN {Fate(TRUE, Loaded(d, 0), 0, "ok", s) : d \in {0, 1}, s \in saves}
          ELSE UNION {{Fate(TRUE, Loaded(1, n), k, "ok", s) : k \in 0..n, s \in saves}
                      \cup {Fate(TRUE, Loaded(1, n), 0, "add_fails", "ok")} :
                      n \in 1..MaxPoints})

\* str(uuid.uuid4())[:8]: an id that was never produced before; which one
\* makes no difference
uuid4(issued) == CHOOSE d \in DocIds \ issued : TRUE

\* a step of handle_ingestion on a document, and whether it returned
Event(step, doc_id, filename, ok) ==
    [step |-> step, doc_id |-> doc_id, filename |-> filename, ok |-> ok]

\* SessionManager.add_ingested_document and add_processed_file
add_to_session(ses, doc_id, filename) ==
    [ingested_docs |-> put(ses.ingested_docs, doc_id, filename),
     processed_files |-> ses.processed_files \cup {filename}]

\* handle_ingestion, lines 58-101, for one uploaded file: st holds the
\* ledger instance, its file, the collection, the session, the ids produced
\* and the steps taken so far; an exception of any step ends the file
ingest_document(st, vector_size, name, fate, t) ==
    LET doc_id == uuid4(DOMAIN st.uuids)
        drawn == [st EXCEPT !.uuids = put(@, doc_id, name)]
        r == load_and_split_result(name, doc_id, name, fate.load)
        n == Len(r.chunks)
        ix == index_result(st.collection, vector_size, stamp(name, doc_id, name),
                           n, fate.stored, fate.store)
        rg == register_result(st.metadata, doc_id, name, n, buffer_size(name), t)
    IN IF ~fate.write_ok
       THEN [drawn EXCEPT !.log = @ \o <<Event("write", doc_id, name, FALSE)>>]
       ELSE IF r.raised
       THEN [drawn EXCEPT !.log = @ \o <<Event("write", doc_id, name, TRUE),
                                         Event("load_and_split", doc_id, name, FALSE)>>]
       ELSE IF ix.ret = "raise"
       THEN [drawn EXCEPT !.collection = ix.collection,
                          !.log = @ \o <<Event("write", doc_id, name, TRUE),
                                         Event("load_and_split", doc_id, name, TRUE),
                                         Event("index", doc_id, name, FALSE)>>]
       ELSE [drawn EXCEPT !.collection = ix.collection,
                          !.metadata = rg.metadata,
                          !.file = save_metadata(rg.metadata, st.file, fate.save),
                          !.session = add_to_session(@, doc_id, name),
                          !.log = @ \o <<Event("write", doc_id, name, TRUE),
                                         Event("load_and_split", doc_id, name, TRUE),
                                         Event("index", doc_id, name, TRUE),
                                         Event("register", doc_id, name, TRUE),
                                         Event("session", doc_id, name, TRUE)>>]

RECURSIVE ingest_from_aborting(_, _, _, _, _, _)
ingest_from_aborting(st, vector_size, files, fates, i, t) ==
    IF i > Len(files)
    THEN st
    ELSE LET next == ingest_document(st, vector_size, files[i], fates[i], t)
         IN IF next.log[Len(next.log)].ok
            THEN ingest_from_aborting(next, vector_size, files, fates, i + 1, t)
            ELSE next

\* the for loop of handle_ingestion from file i on
RECURSIVE ingest_from(_, _, _, _, _, _)
ingest_from(st, vector_size, files, fates, i, t) ==
    IF i > Len(files)
    THEN st
    ELSE ingest_from(ingest_document(st, vector_size, files[i], fates[i], t),
                     vector_size, files, fates, i + 1, t)

new_files_unfiltered(uploaded_files, ses) == uploaded_files

\* render_upload_section, lines 28-32: the uploaded files whose name is not
\* in processed_files
new_files(uploaded_files, ses) ==
    LET unprocessed(name) == name \notin ses.processed_files
    IN SelectSeq(uploaded_files, unprocessed)

\* the fates of a list of files, one for each
RECURSIVE FateLists(_)
FateLists(files) ==
    IF files = <<>>
    THEN {<<>>}
    ELSE {<<f>> \o rest : f \in IngestFates(Head(files), {"ok"}),
                          rest \in FateLists(Tail(files))}

\* render_upload_section with handle_ingestion: the new files are ingested
\* by a new MetadataManager and the session's VectorStoreManager, which
\* get_vector_store_manager constructs when the session has none;
\* without a manager nothing is ingested.  fates are those of the new files
render_upload_section(uploaded_files, fates, outcome) ==
    LET new == new_files(uploaded_files, session)
        rendered == [NoCall EXCEPT !.op = "render",
                                   !.uploaded_files = uploaded_files,
                                   !.submitted = new]
    IN /\ Cardinality(DocIds \ DOMAIN uuids) >= Len(new)
       /\ IF new = <<>>
          THEN /\ call' = rendered
               /\ UNCHANGED <<metadata, file, fresh, vs_manager, collection,
                              session, embedding, uuids>>
          ELSE LET loaded == load_metadata(file, clock)
                   vs == IF vs_manager.constructed
                         THEN [raised |-> FALSE, creates |-> FALSE,
                               embedding |-> embedding, collection |-> collection,
                               vector_size |-> vs_manager.vector_size]
                         ELSE VectorStoreManager_result(embedding, collection,
                                                        outcome)
                   st == ingest_from([metadata |-> loaded.value, file |-> file,
                                      collection |-> vs.collection,
                                      session |-> session, uuids |-> uuids,
                                      log |-> <<>>],
                                     vs.vector_size, new, fates, 1, clock)
               IN /\ embedding' = vs.embedding
                  /\ IF vs.raised
                     THEN /\ call' = [rendered EXCEPT !.creates = vs.creates,
                                                      !.ret = "no_manager"]
                          /\ metadata' = loaded.value
                          /\ fresh' = IsEmptyLedger(loaded.value)
                          /\ collection' = vs.collection
                          /\ UNCHANGED <<file, vs_manager, session, uuids>>
                     ELSE /\ points_count(st.collection) <= MaxPoints
                          /\ st.metadata.statistics.total_chunks <= MaxTotalChunks
                          /\ st.metadata.statistics.total_size_bytes <= MaxTotalSize
                          /\ call' = [rendered EXCEPT !.creates = vs.creates,
                                                      !.log = st.log,
                                                      !.ret = "None"]
                          /\ vs_manager' = [constructed |-> TRUE,
                                            vector_size |-> vs.vector_size]
                          /\ metadata' = st.metadata
                          /\ file' = st.file
                          /\ fresh' = IsEmptyLedger(st.metadata)
                          /\ collection' = st.collection
                          /\ session' = st.session
                          /\ uuids' = st.uuids
       /\ UNCHANGED <<clock, other_metadata, indexing>>

\* the renders of a session: any upload list, each new file with a fate, and
\* an outcome for the construction of a manager when the session has none
Renders(outcomes) ==
    \E n \in 0..Cardinality(DocIds) :
       \E uploaded_files \in [1..n -> Uploads] :
          \E fates \in (IF Cardinality(DocIds \ DOMAIN uuids)
                              >= Len(new_files(uploaded_files, session))
                        THEN FateLists(new_files(uploaded_files, session))
                        ELSE {}),
             o \in (IF vs_manager.constructed THEN {"ok"} ELSE outcomes) :
             render_upload_section(uploaded_files, fates, o)

\* a delete that also unregisters the document and drops its points
remove_ingested_document_cascading(doc_id) ==
    /\ session' = [session EXCEPT !.ingested_docs = del(@, doc_id)]
    /\ call' = [NoCall EXCEPT !.op = "remove_ingested", !.doc_id = doc_id,
                              !.known = doc_id \in DOMAIN session.ingested_docs,
                              !.ret = "None"]
    /\ metadata' = unregister_result(metadata, doc_id).metadata
    /\ collection' = [collection EXCEPT !.points =
                        [c \in DOMAIN @ |->
                            IF c.document_id = doc_id THEN 0 ELSE @[c]]]
    /\ UNCHANGED <<file, clock, fresh, vs_manager>>
    /\ UNCHANGED <<embedding, uuids, other_metadata, indexing>>

\* SessionManager.remove_ingested_document
remove_ingested_document(doc_id) ==
    /\ session' = [session EXCEPT !.ingested_docs = del(@, doc_id)]
    /\ call' = [NoCall EXCEPT !.op = "remove_ingested", !.doc_id = doc_id,
                              !.known = doc_id \in DOMAIN session.ingested_docs,
                              !.ret = "None"]
    /\ UNCHANGED <<metadata, file, clock, fresh, vs_manager, collection>>
    /\ UNCHANGED <<embedding, uuids, other_metadata, indexing>>

\* SessionManager.clear_all: the session's vector_store_manager is kept
SessionManager_clear_all ==
    /\ session' = NoSession
    /\ call' = [NoCall EXCEPT !.op = "session_clear_all", !.ret = "None"]
    /\ UNCHANGED <<metadata, file, clock, fresh, vs_manager, collection>>
    /\ UNCHANGED <<embedding, uuids, other_metadata, indexing>>

\* one session of the application: every rerun of the script renders the
\* upload section; the buttons delete a document or clear the session
SessionNext(outcomes) ==
    \/ \E o \in outcomes : VectorStoreManager_init(o)
    \/ \E o \in outcomes : get_embedding_manager(o)
    \/ Renders(outcomes)
    \/ \E d \in DocIds : remove_ingested_document(d)
    \/ SessionManager_clear_all

----------------------------------------------------------------------------
\* the calls a client of the vector store can make, indexing chunks of the
\* given kinds in lists of the given lengths, against a service with the given
\* outcomes
VectorNext(chunks, lengths, outcomes) ==
    \/ \E o \in outcomes : VectorStoreManager_init(o)
    \/ \E c \in chunks, n \in lengths, o \in outcomes :
          \E k \in 0..n : index_documents(c, n, k, o)
    \/ \E o \in outcomes : clear_collection(o)

----------------------------------------------------------------------------
(* Specifications *)

Init ==
    /\ file \in {MissingFile, CorruptFile}
    /\ clock = 1
    /\ metadata = load_metadata(file, clock).value
    /\ call = NoCall
    /\ fresh = TRUE
    /\ vs_manager = NoManager
    /\ collection = NoCollection
    /\ session = NoSession
    /\ embedding = NoEmbedding
    /\ uuids = EmptyDocuments
    /\ other_metadata = metadata
    /\ indexing = NoIndexing

\* the ledger alone, every write of the backing file succeeding
Next == LedgerNext(Filenames, ChunkCounts, FileSizes, Statuses, {"ok"})

Spec == Init /\ [][Next]_vars

\* the ledger alone, over a file system whose writes can fail
NextDisk == LedgerNext({"awr1.txt"}, {1}, {1}, {"error"}, SaveOutcomes)

SpecDisk == Init /\ [][NextDisk]_vars

\* the ledger alone, every write of the backing file succeeding, with time
\* passing between the calls
NextClock ==
    \/ LedgerNext({"awr1.txt"}, {1}, {1}, Statuses, {"ok"})
    \/ Tick

SpecClock == Init /\ [][NextClock]_vars

\* both stores, as one session uses them
NextStores ==
    \/ LedgerNext({"awr1.txt"}, {1}, {1}, {"error"}, SaveOutcomes)
    \/ VectorNext(StampedChunks, {1},
                  {"ok", "create_fails", "delete_fails"})

SpecStores == Init /\ [][NextStores]_vars

\* a collection some other run or program left in the store under the same
\* name, of this or of another vector size
ForeignVectorSize == 2 * VectorSize
ExistingCollections ==
    {[exists |-> TRUE, vector_size |-> v, points |-> p] :
        v \in {VectorSize, ForeignVectorSize},
        p \in {NoPoints} \cup {[NoPoints EXCEPT ![c] = 1] : c \in StampedChunks}}

\* the vector store and the retriever, over a store that may already hold
\* the collection, with chunks of any kind indexed
InitVector ==
    /\ file = MissingFile
    /\ clock = 1
    /\ metadata = load_metadata(file, clock).value
    /\ call = NoCall
    /\ fresh = TRUE
    /\ vs_manager = NoManager
    /\ collection \in {NoCollection} \cup ExistingCollections
    /\ session = NoSession
    /\ embedding = NoEmbedding
    /\ uuids = EmptyDocuments
    /\ other_metadata = metadata
    /\ indexing = NoIndexing
NextVector ==
    \/ VectorNext(ChunkKinds, 0..MaxPoints, StoreOutcomes)
    \/ RetrieverNext(StoreOutcomes)
SpecVector == InitVector /\ [][NextVector]_vars

\* one session over an empty store and ledger, with model loading and the
\* vector store able to fail
SpecSession ==
    Init /\ [][SessionNext({"ok", "create_fails", "model_fails",
                            "embeddings_fails"})]_vars

\* two ledger instances over one backing file, their calls interleaved
NextLedgers ==
    \/ LedgerNext({"awr1.txt"}, {1}, {1}, {"error"}, {"ok"})
    \/ OtherLedgerNext({"awr1.txt"}, {1}, {1}, {"ok"})

SpecLedgers == Init /\ [][NextLedgers]_vars

\* an index call whose steps interleave with other writers of the collection
SpecRace == Init /\ [][RaceNext]_vars

\* a DocumentProcessor on its own
SpecProcessor == Init /\ [][ProcessorNext]_vars

----------------------------------------------------------------------------
(* Properties of the ledger *)

chunk_counts(md) == [d \in DOMAIN md.documents |-> md.documents[d].chunk_count]
file_sizes(md) == [d \in DOMAIN md.documents |-> md.documents[d].file_size]

\* the statistics computed from scratch over the entries now in the ledger
Recomputed(md) ==
    [total_documents |-> Cardinality(DOMAIN md.documents),
     total_chunks |-> Total(chunk_counts(md), DOMAIN md.documents),
     total_size_bytes |-> Total(file_sizes(md), DOMAIN md.documents)]

RegisterReturnedTrue == call.op = "register" /\ call.ret = "True"
RegisterReturnsTrue == call'.op = "register" /\ call'.ret = "True"

\* C1: after any sequence of register, unregister, update_status and clear_all
\* on a ledger that started empty, get_statistics() equals the statistics
\* recomputed from the current entries.
C1_StatisticsMatchEntries == get_statistics(metadata) = Recomputed(metadata)

\* C2, as claimed: every register that returns true, for a new id or for one
\* already registered, adds exactly (1, chunk_count, file_size) to the three
\* aggregates and leaves the entry holding the passed values, status indexed.
C2_RegisterAddsOneDocument ==
    [][RegisterReturnsTrue =>
         /\ get_statistics(metadata').total_documents =
                get_statistics(metadata).total_documents + 1
         /\ get_statistics(metadata').total_chunks =
                get_statistics(metadata).total_chunks + call'.chunk_count
         /\ get_statistics(metadata').total_size_bytes =
                get_statistics(metadata).total_size_bytes + call'.file_size
         /\ document_exists(metadata', call'.doc_id)
         /\ metadata'.documents[call'.doc_id].filename = call'.filename
         /\ metadata'.documents[call'.doc_id].chunk_count = call'.chunk_count
         /\ metadata'.documents[call'.doc_id].file_size = call'.file_size
         /\ metadata'.documents[call'.doc_id].status = "indexed"]_vars

\* C2, amended: every register that returns true leaves total_documents equal
\* to the number of entries, which is an increase of exactly 1 for a new id
\* and no change for an id already registered; it adds exactly chunk_count to
\* total_chunks and file_size to total_size_bytes, and leaves the entry
\* holding the passed values with status indexed.
C2_RegisterCountsEntries ==
    [][RegisterReturnsTrue =>
         /\ get_statistics(metadata').total_documents =
                Cardinality(DOMAIN metadata'.documents)
         /\ get_statistics(metadata').total_documents =
                get_statistics(metadata).total_documents +
                  (IF document_exists(metadata, call'.doc_id) THEN 0 ELSE 1)
         /\ get_statistics(metadata').total_chunks =
                get_statistics(metadata).total_chunks + call'.chunk_count
         /\ get_statistics(metadata').total_size_bytes =
                get_statistics(metadata).total_size_bytes + call'.file_size
         /\ document_exists(metadata', call'.doc_id)
         /\ metadata'.documents[call'.doc_id].filename = call'.filename
         /\ metadata'.documents[call'.doc_id].chunk_count = call'.chunk_count
         /\ metadata'.documents[call'.doc_id].file_size = call'.file_size
         /\ metadata'.documents[call'.doc_id].status = "indexed"]_vars

\* a register of an id that was already registered, with a chunk count and a
\* size to add, has returned true
C2_Witness ==
    /\ RegisterReturnedTrue
    /\ call.known
    /\ call.chunk_count > 0
    /\ call.file_size > 0

\* C3: immediately after register(id, filename, chunk_count, file_size)
\* returns true, document_exists(id) holds and get_document_info(id) has the
\* passed filename, chunk_count and file_size and status 'indexed', whatever
\* the ledger held before.
C3_RegisterRoundTrip ==
    RegisterReturnedTrue =>
        /\ document_exists(metadata, call.doc_id)
        /\ LET info == get_document_info(metadata, call.doc_id)
           IN /\ info.filename = call.filename
              /\ info.chunk_count = call.chunk_count
              /\ info.file_size = call.file_size
              /\ info.status = "indexed"

\* a register has overwritten an entry, beside another document's entry, with
\* a chunk count that differs from the size
C3_Witness ==
    /\ RegisterReturnedTrue
    /\ call.known
    /\ call.chunk_count # call.file_size
    /\ Cardinality(DOMAIN metadata.documents) = 2

\* C4: from an empty ledger, after registering n documents with pairwise
\* distinct ids and no other mutation, get_statistics() is (n, the sum of the
\* registered chunk counts, the sum of the registered file sizes).
C4_FreshRegistrationsSumUp ==
    fresh => get_statistics(metadata) = Recomputed(metadata)

\* two documents with distinct ids were registered into an empty ledger
C4_Witness ==
    /\ fresh
    /\ RegisterReturnedTrue
    /\ Cardinality(DOMAIN metadata.documents) = 2
    /\ get_statistics(metadata).total_chunks = 2
    /\ get_statistics(metadata).total_size_bytes > 0

\* C5: unregister(id) of a registered id returns true, removes exactly that
\* entry, leaves every other entry as it was, and takes 1, the entry's
\* chunk_count and the entry's file_size off the three aggregates.
C5_UnregisterRemovesOneEntry ==
    [][(call'.op = "unregister" /\ document_exists(metadata, call'.doc_id)) =>
         /\ call'.ret = "True"
         /\ DOMAIN metadata'.documents = DOMAIN metadata.documents \ {call'.doc_id}
         /\ \A d \in DOMAIN metadata'.documents :
                metadata'.documents[d] = metadata.documents[d]
         /\ get_statistics(metadata').total_documents =
                get_statistics(metadata).total_documents - 1
         /\ get_statistics(metadata').total_chunks =
                get_statistics(metadata).total_chunks -
                  metadata.documents[call'.doc_id].chunk_count
         /\ get_statistics(metadata').total_size_bytes =
                get_statistics(metadata).total_size_bytes -
                  metadata.documents[call'.doc_id].file_size]_vars

\* an unregister returned true and another document is still registered
C5_Witness ==
    /\ call.op = "unregister"
    /\ call.ret = "True"
    /\ Cardinality(DOMAIN metadata.documents) = 1
    /\ get_statistics(metadata).total_chunks > 0

\* C6: unregister(id) of an id that is not registered (never registered, or
\* already unregistered) returns false and changes neither the entries, nor
\* the aggregates, nor the backing file.
C6_UnregisterUnknownIsNoOp ==
    [][(call'.op = "unregister" /\ ~document_exists(metadata, call'.doc_id)) =>
         /\ call'.ret = "False"
         /\ metadata' = metadata
         /\ file' = file]_vars

\* an unregister of an unknown id returned false while other documents were
\* registered and the backing file was not what a save would write
C6_Witness ==
    /\ call.op = "unregister"
    /\ call.ret = "False"
    /\ ~document_exists(metadata, call.doc_id)
    /\ metadata.documents # EmptyDocuments
    /\ file # save_metadata(metadata, file, "ok")

\* C7: in every state reached from an empty ledger by register (with
\* non-negative chunk_count and file_size), unregister, update_status and
\* clear_all, none of the three aggregates is negative.
C7_AggregatesNonNegative ==
    /\ get_statistics(metadata).total_documents >= 0
    /\ get_statistics(metadata).total_chunks >= 0
    /\ get_statistics(metadata).total_size_bytes >= 0

\* an unregister has taken the last entry's contribution off the aggregates
\* and brought all three to 0
C7_Witness ==
    /\ call.op = "unregister"
    /\ call.ret = "True"
    /\ metadata.documents = EmptyDocuments
    /\ get_statistics(metadata) = create_empty_metadata(clock).statistics

Persisted ==
    /\ file.kind = "json"
    /\ load_metadata(file, clock).value.documents = metadata.documents
    /\ load_metadata(file, clock).value.statistics = metadata.statistics

\* C8: whenever register, unregister of a registered id, update_status of a
\* registered id, or clear_all has returned (true, where it has a result),
\* the backing file holds exactly the in-memory documents and statistics, so
\* a new instance over the file loads the same ledger.
C8_ReturnMeansPersisted ==
    (\/ call.op \in {"register", "unregister", "update_status"} /\ call.ret = "True"
     \/ call.op = "clear_all")
        => Persisted

\* C9: constructing a ledger over a backing file that is missing, or that
\* exists but cannot be parsed, does not raise and yields the empty ledger.
C9_UnreadableFileGivesEmptyLedger ==
    [][(call'.op = "construct" /\ file.kind \in {"missing", "corrupt"}) =>
         /\ call'.ret = "instance"
         /\ IsEmptyLedger(metadata')]_vars

\* an instance was constructed over a file that exists and is not JSON
C9_Witness ==
    /\ call.op = "construct"
    /\ call.ret = "instance"
    /\ file = CorruptFile
    /\ IsEmptyLedger(metadata)

(* Properties of the two stores together *)

ClearReturns == call'.op = "clear" /\ call'.ret = "None"
ClearAllReturns == call'.op = "clear_all"

\* C10: the two stores are not coupled: VectorIndex.clear() leaves the
\* collection existing with point count 0 and the same vector configuration
\* while the ledger is unchanged, and clear_all() resets the ledger to the
\* empty structure and persists it while the point count is unchanged.
C10_StoresNotCoupled ==
    [][/\ ClearReturns =>
            /\ collection'.exists
            /\ points_count(collection') = 0
            /\ collection.exists => collection'.vector_size = collection.vector_size
            /\ metadata' = metadata
            /\ file' = file
       /\ ClearAllReturns =>
            /\ IsEmptyLedger(metadata')
            /\ Persisted'
            /\ points_count(collection') = points_count(collection)]_vars

\* what is left of C10 without the write of the backing file: clear() and
\* clear_all() each reset their own store and leave the other one alone
C10_WithoutPersistence ==
    [][/\ ClearReturns =>
            /\ collection'.exists
            /\ points_count(collection') = 0
            /\ collection.exists => collection'.vector_size = collection.vector_size
            /\ metadata' = metadata
            /\ file' = file
       /\ ClearAllReturns =>
            /\ IsEmptyLedger(metadata')
            /\ collection' = collection]_vars

----------------------------------------------------------------------------
(* C11 *)

\* some search with this retriever returns chunk c
CanReturn(col, retriever, c) ==
    \E seq \in search_results(col, retriever) : \E i \in DOMAIN seq : seq[i] = c

\* the chunks of document doc_id in the collection
ChunksOf(col, doc_id) ==
    {c \in ChunkKinds : c.document_id = doc_id /\ col.points[c] > 0}

UnregisterReturnsTrue == call'.op = "unregister" /\ call'.ret = "True"

\* C11: an unregister_document(D) that returns True leaves the collection as
\* it was, every point of D included, and afterwards a search, unfiltered or
\* filtered on D, of any k can still return each chunk of D
C11_UnregisterKeepsVectors ==
    [][UnregisterReturnsTrue =>
          /\ collection' = collection
          /\ points_count(collection') = points_count(collection)
          /\ usable(collection', vs_manager'.vector_size) =>
                \A c \in ChunksOf(collection, call'.doc_id), k \in 1..MaxK :
                   /\ CanReturn(collection', get_unfiltered_retriever(k), c)
                   /\ CanReturn(collection',
                                choose_retriever(IdList({call'.doc_id}), k), c)]_vars

\* an unregister_document(D) has returned True while the collection holds a
\* chunk of D and a chunk of another document
C11_Witness ==
    /\ call.op = "unregister"
    /\ call.ret = "True"
    /\ ~document_exists(metadata, call.doc_id)
    /\ ChunksOf(collection, call.doc_id) # {}
    /\ \E d \in DocIds \ {call.doc_id} : ChunksOf(collection, d) # {}

----------------------------------------------------------------------------
(* C12 *)

\* C12: a VectorStoreManager construction, which runs
\* _ensure_collection_exists once, calls create_collection only when the
\* collection is absent: over an existing collection it creates nothing and
\* leaves the points and the vector size alone; over an absent one, when it
\* returns, the collection exists, empty, with the embedding dimension
C12_CreatesOnlyWhenAbsent ==
    [][call'.op = "vs_init" =>
          IF collection.exists
          THEN /\ ~call'.creates
               /\ points_count(collection') = points_count(collection)
               /\ collection'.vector_size = collection.vector_size
          ELSE /\ call'.creates
               /\ call'.ret = "instance" =>
                     /\ collection'.exists
                     /\ collection'.vector_size = vs_manager'.vector_size
                     /\ points_count(collection') = 0]_vars

----------------------------------------------------------------------------
(* C13, C14 *)

IndexedNonEmpty == call'.op = "index" /\ call'.chunk_count > 0

\* the growth of the point count over the step
PointsAdded == points_count(collection') - points_count(collection)

\* C13: index_documents on a non-empty list either adds exactly
\* len(documents) points and returns the ids, or raises; it never returns
\* when the point count grew by another number
C13_ReturnsOnlyOnExactDelta ==
    [][IndexedNonEmpty =>
          \/ call'.ret = "raise"
          \/ call'.ret = "ids" /\ PointsAdded = call'.chunk_count]_vars

\* C14: index_documents on a non-empty list raises when the point count did
\* not grow, and returns the ids with only a warning logged when it grew by
\* a number other than len(documents)
C14_ZeroRaisesPartialWarns ==
    [][IndexedNonEmpty =>
          /\ PointsAdded = 0 => call'.ret = "raise"
          /\ PointsAdded # 0 /\ PointsAdded # call'.chunk_count =>
                call'.ret = "ids" /\ call'.warned
          /\ PointsAdded = call'.chunk_count =>
                call'.ret = "ids" /\ ~call'.warned]_vars

\* an index_documents call of two documents has returned the ids after the
\* store kept one new point, with a warning logged
C14_Witness ==
    /\ call.op = "index"
    /\ call.chunk_count = 2
    /\ call.stored = 1
    /\ call.warned
    /\ call.ret = "ids"

----------------------------------------------------------------------------
(* C15 *)

\* C15: whenever a VectorStoreManager has been constructed and the collection
\* exists, the collection's vector size is the manager's embedding dimension,
\* also for a collection found in the store at construction; and only
\* clear_collection, which drops and recreates, changes the vector size
C15_VectorSizeIsDimension ==
    /\ [](vs_manager.constructed /\ collection.exists =>
             collection.vector_size = vs_manager.vector_size)
    /\ [][collection.exists /\ collection'.exists
             /\ collection'.vector_size # collection.vector_size =>
                call'.op = "clear"]_vars

----------------------------------------------------------------------------
(* C16 *)

\* C16: every point of the collection carries a non-empty document_id, a
\* non-empty filename and non-empty content, whatever chunk lists were given
\* to index_documents
C16_PointsCarryPayload ==
    \A c \in ChunkKinds :
        collection.points[c] > 0 =>
            c.document_id # "" /\ c.filename # "" /\ c.page_content # ""

----------------------------------------------------------------------------
(* C17 *)

\* C17: retrieve_documents with a non-empty list doc_ids returns at most k
\* chunks, each with a document_id that is a member of doc_ids, whatever else
\* the collection holds
C17_FilteredRetrievalStaysInIds ==
    [][/\ call'.op = "retrieve"
       /\ call'.doc_ids.given
       /\ call'.doc_ids.ids # {}
       /\ call'.ret = "documents"
       => /\ Cardinality(DOMAIN call'.result) <= call'.k
          /\ \A i \in DOMAIN call'.result :
                call'.result[i].document_id \in call'.doc_ids.ids]_vars

\* a retrieval filtered on one document has returned a chunk while the
\* collection holds a point of another document
C17_Witness ==
    /\ call.op = "retrieve"
    /\ call.doc_ids = IdList({"A1"})
    /\ call.ret = "documents"
    /\ call.result # <<>>
    /\ \E c \in ChunkKinds : c.document_id # "A1" /\ collection.points[c] > 0

----------------------------------------------------------------------------
(* C18 *)

\* C18: retrieve_documents searches without a filter exactly when doc_ids is
\* the empty list; for any other value, a non-empty list or None, it applies
\* the any-of filter or raises to the caller
C18_UnfilteredOnlyForEmptyList ==
    [][call'.op = "retrieve" =>
          IF call'.doc_ids = IdList({})
          THEN ~call'.filtered
          ELSE call'.filtered \/ call'.ret = "raise"]_vars

----------------------------------------------------------------------------
(* C19 *)

\* C19: load_and_split_document raises, or returns a non-empty list of chunks
\* that all carry the given doc_id, filename and file_path; it returns no
\* empty list, not even for a file that exists and holds no content
C19_LoadRaisesOrGivesChunks ==
    [][call'.op = "load_and_split" =>
          \/ call'.ret = "raise"
          \/ /\ call'.ret = "chunks"
             /\ call'.result # <<>>
             /\ \A i \in DOMAIN call'.result :
                   /\ call'.result[i].document_id = call'.doc_id
                   /\ call'.result[i].filename = call'.filename
                   /\ call'.result[i].source_path = call'.file_path]_vars

----------------------------------------------------------------------------
(* C20 *)

\* the items of list at the positions where keep is flag, in order, as
\* (doc_id, filename) pairs
RECURSIVE Picked(_, _, _, _)
Picked(list, keep, flag, i) ==
    IF i > Len(list) THEN <<>>
    ELSE IF keep[i] = flag
    THEN <<<<list[i].doc_id, list[i].filename>>>> \o Picked(list, keep, flag, i + 1)
    ELSE Picked(list, keep, flag, i + 1)

Names(entries) ==
    [i \in DOMAIN entries |-> <<entries[i].doc_id, entries[i].filename>>]

\* C20: process_multiple_documents returns for every batch; each descriptor
\* is in exactly one of 'successful' and 'failed', both in input order; a
\* successful entry has its chunks and chunk_count = len(chunks), a failed
\* one has doc_id, filename and an error text; items after a failed one are
\* processed
C20_BatchIsPartitioned ==
    [][call'.op = "process_multiple" =>
          LET list == call'.file_info_list
              successful == call'.results.successful
              failed == call'.results.failed
          IN /\ call'.ret = "results"
             /\ Len(successful) + Len(failed) = Len(list)
             /\ \E keep \in [DOMAIN list -> BOOLEAN] :
                   /\ Names(successful) = Picked(list, keep, TRUE, 1)
                   /\ Names(failed) = Picked(list, keep, FALSE, 1)
             /\ \A i \in DOMAIN successful :
                   /\ successful[i].chunk_count = Len(successful[i].chunks)
                   /\ \A j \in DOMAIN successful[i].chunks :
                         successful[i].chunks[j].document_id = successful[i].doc_id
             /\ \A i \in DOMAIN failed : failed[i].error # ""]_vars

\* a batch has returned in which a failed descriptor came before a
\* successful one
C20_Witness ==
    /\ call.op = "process_multiple"
    /\ call.ret = "results"
    /\ Len(call.file_info_list) = 2
    /\ call.file_info_list[1].file_path = "missing.txt"
    /\ Len(call.results.failed) = 1
    /\ Len(call.results.successful) = 1
    /\ call.results.successful[1].chunk_count > 0

----------------------------------------------------------------------------
(* C27 *)

\* C27: in every state reached from an empty ledger by register, unregister,
\* update_status and clear_all, total_documents is the number of entries of
\* the ledger, also after a registered id was registered again
C27_TotalDocumentsCountsEntries ==
    get_statistics(metadata).total_documents =
        Cardinality(DOMAIN metadata.documents)

\* an unregister has returned True on a ledger that still holds another
\* entry and whose totals carry a second registration of one id
C27_Witness ==
    /\ call.op = "unregister"
    /\ call.ret = "True"
    /\ Cardinality(DOMAIN metadata.documents) = 1
    /\ get_statistics(metadata).total_chunks > Recomputed(metadata).total_chunks

----------------------------------------------------------------------------
(* C21 *)

UpdateStatusCalled == call'.op = "update_status"

\* C21: update_document_status(id, status) on a registered id returns True
\* and changes only that entry's status, to the given value, and
\* last_updated: its other fields, every other entry and the statistics stay
\* as they were; on an unregistered id it returns False and changes neither
\* the ledger in memory nor the file
C21_UpdateStatusFrame ==
    [][UpdateStatusCalled =>
          IF document_exists(metadata, call'.doc_id)
          THEN LET old == metadata.documents[call'.doc_id]
                   new == metadata'.documents[call'.doc_id]
               IN /\ call'.ret = "True"
                  /\ DOMAIN metadata'.documents = DOMAIN metadata.documents
                  /\ new.status = call'.status
                  /\ new.last_updated = clock
                  /\ new.filename = old.filename
                  /\ new.chunk_count = old.chunk_count
                  /\ new.file_size = old.file_size
                  /\ new.ingested_at = old.ingested_at
                  /\ \A d \in DOMAIN metadata.documents \ {call'.doc_id} :
                        metadata'.documents[d] = metadata.documents[d]
                  /\ get_statistics(metadata') = get_statistics(metadata)
          ELSE /\ call'.ret = "False"
               /\ metadata' = metadata
               /\ file' = file]_vars

\* an update_document_status to 'error' has returned True, later than the
\* entry was ingested, on a ledger that holds another entry
C21_Witness ==
    /\ call.op = "update_status"
    /\ call.ret = "True"
    /\ call.status = "error"
    /\ document_exists(metadata, call.doc_id)
    /\ metadata.documents[call.doc_id].last_updated
          # metadata.documents[call.doc_id].ingested_at
    /\ metadata.documents[call.doc_id].status = "error"
    /\ Cardinality(DOMAIN metadata.documents) = 2

\* C22: every get_embedding_manager() call of the process that returns,
\* returns the one EmbeddingManager object, and _initialize has run at most
\* once, whoever made the calls (the session, a VectorStoreManager
\* constructor or a client)
C22_OneEmbeddingManager ==
    /\ embedding.created <= 1
    /\ embedding.runs <= 1
    /\ (call.op = "get_embedding_manager" /\ call.ret = "instance")
          => call.instance = 1

\* a call returns the instance after a VectorStoreManager constructor had
\* already obtained it
C22_Witness ==
    /\ call.op = "get_embedding_manager"
    /\ call.ret = "instance"
    /\ call.instance = 1
    /\ vs_manager.constructed
    /\ embedding.runs = 1

\* the first run of _initialize raised: it ran and left no embeddings
InitialisationFailed == embedding.runs >= 1 /\ ~embedding.embeddings

\* C30: once the first initialisation of the EmbeddingManager has raised, no
\* step initialises again: get_embedding_manager() returns the same instance
\* and leaves it as it is, get_embeddings() raises, every VectorStoreManager
\* construction raises, the session has no vector store manager, and a
\* render that submits files takes no step of the ingestion and stores
\* nothing
C30_FailedInitialisationIsFinal ==
    [][InitialisationFailed =>
          /\ embedding' = embedding
          /\ get_embeddings_raises(embedding')
          /\ ~vs_manager.constructed /\ ~vs_manager'.constructed
          /\ collection' = collection
          /\ points_count(collection') = 0
          /\ call'.op = "get_embedding_manager"
                => call'.ret = "instance" /\ call'.instance = 1
          /\ call'.op = "vs_init" => call'.ret = "raise"
          /\ call'.op = "render"
                => /\ call'.log = <<>>
                   /\ call'.submitted # <<>> => call'.ret = "no_manager"
                   /\ metadata'.documents = metadata.documents
                   /\ session' = session]_vars

\* after the failure a call has returned the uninitialised instance
C30_Witness ==
    /\ InitialisationFailed
    /\ call.op = "get_embedding_manager"
    /\ call.ret = "instance"
    /\ ~vs_manager.constructed

\* the positions of the log with a given step of a given document
Steps(log, step, doc_id, ok) ==
    {i \in DOMAIN log : log[i] = [step |-> step, doc_id |-> doc_id,
                                  filename |-> log[i].filename, ok |-> ok]}

LoggedIds(log) == {log[i].doc_id : i \in DOMAIN log}

\* the file names in the order in which handle_ingestion started on them
Started(log) ==
    LET first(e) == e.step = "write"
        started == SelectSeq(log, first)
    IN [i \in DOMAIN started |-> started[i].filename]

\* C23: in every ingestion, register is called for a document only after
\* load_and_split and then index returned for it; a document for which a
\* step raised has no register call, no entry in the ledger and no place in
\* the session's ingested documents; and every submitted file of the batch
\* is started on, whatever happened to the files before it
C23_IngestionOrder ==
    (call.op = "render" /\ call.ret = "None") =>
       /\ \A d \in LoggedIds(call.log) :
             /\ \A r \in Steps(call.log, "register", d, TRUE) :
                   \E l \in Steps(call.log, "load_and_split", d, TRUE),
                      x \in Steps(call.log, "index", d, TRUE) : l < x /\ x < r
             /\ (\E i \in DOMAIN call.log :
                    call.log[i].doc_id = d /\ ~call.log[i].ok)
                   => /\ Steps(call.log, "register", d, TRUE) = {}
                      /\ d \notin DOMAIN metadata.documents
                      /\ d \notin DOMAIN session.ingested_docs
       /\ Started(call.log) = call.submitted

\* a batch of two whose first file failed in index and whose second file
\* was registered
C23_Witness ==
    /\ call.op = "render"
    /\ Len(call.submitted) = 2
    /\ \E d \in DocIds : Steps(call.log, "index", d, FALSE) # {}
    /\ \E d \in DocIds :
          /\ Steps(call.log, "register", d, TRUE) # {}
          /\ d \in DOMAIN metadata.documents
          /\ \A i \in Steps(call.log, "register", d, TRUE) :
                \E j \in DOMAIN call.log : j < i /\ ~call.log[j].ok

\* C24: in a session that only ingests (nothing clears the collection or
\* unregisters), the chunk_count of every registered document is the number
\* of points of the collection with its document_id
C24_ChunkCountIsRecordCount ==
    \A d \in DOMAIN metadata.documents :
       metadata.documents[d].chunk_count = RecordsOf(collection, d)

\* the documents of a log that were indexed and then registered under a
\* file name before the session recorded them
Completed(log, filename) ==
    {d \in LoggedIds(log) :
        \E x \in Steps(log, "index", d, TRUE),
           r \in Steps(log, "register", d, TRUE),
           m \in Steps(log, "session", d, TRUE) :
           x < r /\ r < m /\ log[r].filename = filename}

\* C29: in one session, a file name enters processed_files only in a render
\* that indexed and registered a file of that name; a render takes no step
\* on a file whose name was in processed_files; a submitted file none of
\* whose ingestions completed is not in processed_files afterwards; every
\* uploaded file whose name is not in processed_files is submitted, and
\* every document of a render gets an id that was never drawn before; only
\* clear_all takes names out of processed_files
C29_ProcessedFiles ==
    [][/\ \A f \in session'.processed_files \ session.processed_files :
             call'.op = "render" /\ Completed(call'.log, f) # {}
       /\ call'.op = "render" =>
             /\ \A i \in DOMAIN call'.log :
                   /\ call'.log[i].filename \notin session.processed_files
                   /\ call'.log[i].doc_id \notin DOMAIN uuids
             /\ \A i \in DOMAIN call'.submitted :
                   Completed(call'.log, call'.submitted[i]) = {}
                      => call'.submitted[i] \notin session'.processed_files
             /\ \A i \in DOMAIN call'.uploaded_files :
                   call'.uploaded_files[i] \notin session.processed_files
                      => \E j \in DOMAIN call'.submitted :
                            call'.submitted[j] = call'.uploaded_files[i]
             /\ call'.ret = "None" => Started(call'.log) = call'.submitted
       /\ ~(session.processed_files \subseteq session'.processed_files)
             => call'.op = "session_clear_all"]_vars

\* a file whose ingestion had raised in an earlier render was submitted
\* again, completed under another id, and is now in processed_files
C29_Witness ==
    /\ call.op = "render"
    /\ \E f \in session.processed_files, d1 \in DOMAIN uuids :
          /\ uuids[d1] = f
          /\ d1 \notin LoggedIds(call.log)
          /\ d1 \notin DOMAIN metadata.documents
          /\ \E d2 \in Completed(call.log, f) :
                d2 # d1 /\ d2 \in DOMAIN metadata.documents

SessionOnlyCall == call'.op \in {"remove_ingested", "session_clear_all"}

\* C28: remove_ingested_document and SessionManager.clear_all change the
\* session only: the ledger, its file, the collection and the session's
\* vector store manager are as before, so every chunk of a document that
\* left the session's list is still in the collection and a retrieval with
\* an empty id list, which is unfiltered, of any k can return it
C28_SessionDeleteKeepsData ==
    [][SessionOnlyCall =>
          /\ metadata' = metadata
          /\ file' = file
          /\ collection' = collection
          /\ vs_manager' = vs_manager
          /\ \A d \in DOMAIN session.ingested_docs \ DOMAIN session'.ingested_docs :
                /\ document_exists(metadata, d) => document_exists(metadata', d)
                /\ ~choose_retriever(IdList({}), 1).filtered
                /\ \A c \in ChunksOf(collection, d), k \in 1..MaxK :
                      CanReturn(collection', choose_retriever(IdList({}), k), c)]_vars

\* a document was deleted from the session while the ledger has its entry
\* and the collection its chunks
C28_Witness ==
    /\ call.op = "remove_ingested"
    /\ call.known
    /\ call.doc_id \notin DOMAIN session.ingested_docs
    /\ document_exists(metadata, call.doc_id)
    /\ ChunksOf(collection, call.doc_id) # {}

\* the ids of the documents the backing file holds
FileIds(f) == DOMAIN load_metadata(f, NoTime).value.documents

\* C25: with two ledger instances over one backing file, every persisting
\* call writes the file from the calling instance's own copy alone: after it
\* the file holds exactly that instance's documents, so a document the other
\* instance registered (with return value True) and that instance never
\* loaded is gone from the file; the call returns as it does for a single
\* instance, without an error, and the other instance's copy is left as it was
C25_LastWriterWins ==
    [][/\ call'.op \in {"register", "unregister", "update_status", "clear_all"}
             => /\ other_metadata' = other_metadata
                /\ file' # file => /\ file' = JsonFile(json_dump(metadata'))
                                   /\ FileIds(file') = DOMAIN metadata'.documents
       /\ call'.op \in {"other_register", "other_unregister"}
             => /\ metadata' = metadata
                /\ file' # file => /\ file' = JsonFile(json_dump(other_metadata'))
                                   /\ FileIds(file') = DOMAIN other_metadata'.documents
       /\ call'.op = "register"
             => /\ call'.ret = "True"
                /\ FileIds(file') = (DOMAIN metadata.documents) \cup {call'.doc_id}
       /\ call'.op = "other_register"
             => /\ call'.ret = "True"
                /\ FileIds(file') =
                      (DOMAIN other_metadata.documents) \cup {call'.doc_id}]_vars

\* a registration of the second instance has returned True and the file
\* has lost a document that the first instance registered and still holds
C25_Witness ==
    /\ call.op = "other_register"
    /\ call.ret = "True"
    /\ file = JsonFile(json_dump(other_metadata))
    /\ \E d \in DOMAIN metadata.documents :
          /\ d # call.doc_id
          /\ d \notin FileIds(file)
          /\ d \notin DOMAIN other_metadata.documents

\* C26: the verdict of an index call depends on the change of the
\* collection's total point count between its two reads and on nothing else:
\* it raises exactly when the count did not change and warns exactly when
\* the change is neither 0 nor len(chunks).  When no other writer changed
\* the collection between the call's steps the change is the number of the
\* call's own records in the collection; with a second index call or a clear
\* in between it need not be, so the call can raise with all its records
\* stored and can return without warning with another number of them stored
C26_DeltaCheckCountsAllWriters ==
    [][call'.op = "index_end" =>
          LET delta == points_count(collection) - indexing.points_before
              own == RecordsOf(collection, indexing.document_id)
          IN /\ call'.ret = "raise" <=> delta = 0
             /\ call'.ret = "ids" <=> delta # 0
             /\ call'.warned <=> (delta # 0 /\ delta # indexing.n)
             /\ ~Disturbed => /\ delta = own
                              /\ call'.ret = "raise" => own = 0
                              /\ (call'.ret = "ids" /\ ~call'.warned)
                                    => own = indexing.n
             /\ indexing'.false_alarm /\ ~indexing.false_alarm => Disturbed
             /\ indexing'.missed /\ ~indexing.missed => Disturbed]_vars

\* one index call has raised with all its records stored, and one has
\* returned without warning with another number of them stored than it was
\* given
C26_Witness ==
    /\ call.op = "index_end"
    /\ indexing.false_alarm
    /\ indexing.missed

====
